---- MODULE Spec2Model ----
(***************************************************************************)
(* Cycle-level model of the out-of-order pipeline simulator (procsim).     *)
(* The live-scoreboard variant of run_proc is modelled phase by phase:     *)
(* one action per phase of the cycle loop, in the order the loop body      *)
(* executes them.  The trace reader is an input stream `trace` with a      *)
(* cursor `read_pos`.                                                      *)
(***************************************************************************)
EXTENDS Integers, Sequences, FiniteSets, TLC

VARIABLES
    g_r, g_k0, g_k1, g_k2, g_f, g_rs_size,   \* configuration (setup_proc)
    register_ready,                          \* scoreboard: -1 or writer tag
    fu_k0_available, fu_k1_available, fu_k2_available,
    fetch_buffer, dispatch_queue, schedule_queue,
    next_tag, current_cycle, done_fetching,
    total_fired, total_retired, total_dispatch_size, max_dispatch_size,
    tags_to_remove,                          \* local of the loop body
    trace, read_pos,                         \* trace reader: input and cursor
    events,                                  \* lines printed on stdout
    p_stats,                                 \* the caller's statistics record
    pc                                       \* position in run_proc

vars == << g_r, g_k0, g_k1, g_k2, g_f, g_rs_size, register_ready,
           fu_k0_available, fu_k1_available, fu_k2_available,
           fetch_buffer, dispatch_queue, schedule_queue,
           next_tag, current_cycle, done_fetching,
           total_fired, total_retired, total_dispatch_size, max_dispatch_size,
           tags_to_remove, trace, read_pos, events, p_stats, pc >>

config_vars == << g_r, g_k0, g_k1, g_k2, g_f, g_rs_size, trace >>

-----------------------------------------------------------------------------
(* Program constants and model bounds *)

NUM_REGS == 128

DEFAULT_K0 == 1
DEFAULT_K1 == 2
DEFAULT_K2 == 3
DEFAULT_R == 8
DEFAULT_F == 4

\* longest trace of register-dependent instructions
MaxInsts == 4
\* longest trace of instructions over all opcodes and both source slots
MaxMixed == 2
\* longest trace of register-free instructions
MaxBurst == 7
\* the cycle loop is cut after this many cycles
MaxCycle == 22

Min(a, b) == IF a < b THEN a ELSE b

Regs == 0 .. (NUM_REGS - 1)

\* An instruction as the trace reader delivers it.
TraceInst(op, s0, s1, d) ==
    [op_code |-> op, src_reg |-> << s0, s1 >>, dest_reg |-> d]

-----------------------------------------------------------------------------
(* setup_proc *)

RsSize(k0, k1, k2) == 2 * (k0 + k1 + k2)

AllAvailable(k) == [j \in 1 .. k |-> TRUE]

InitWith(traces, configs) ==
    /\ trace \in traces
    /\ \E c \in configs :
         /\ g_r = c.r /\ g_k0 = c.k0 /\ g_k1 = c.k1 /\ g_k2 = c.k2 /\ g_f = c.f
         /\ g_rs_size = RsSize(c.k0, c.k1, c.k2)
         /\ fu_k0_available = AllAvailable(c.k0)
         /\ fu_k1_available = AllAvailable(c.k1)
         /\ fu_k2_available = AllAvailable(c.k2)
    /\ register_ready = [r \in Regs |-> -1]
    /\ fetch_buffer = << >>
    /\ dispatch_queue = << >>
    /\ schedule_queue = << >>
    /\ next_tag = 1
    /\ current_cycle = 0
    /\ done_fetching = FALSE
    /\ total_fired = 0
    /\ total_retired = 0
    /\ total_dispatch_size = 0
    /\ max_dispatch_size = 0
    /\ tags_to_remove = << >>
    /\ read_pos = 0
    /\ events = << >>
    /\ p_stats = [cycle_count |-> 0, retired_instruction |-> 0,
                  max_disp_size |-> 0, avg_inst_fired |-> << 0, 0 >>,
                  avg_inst_retired |-> << 0, 0 >>, avg_disp_size |-> << 0, 0 >>]
    /\ pc = "loop"

-----------------------------------------------------------------------------
(* Function-unit pools *)

FuPools == [c \in 0 .. 2 |->
              IF c = 0 THEN fu_k0_available
              ELSE IF c = 1 THEN fu_k1_available ELSE fu_k2_available]

\* index of the first slot holding `val`, 0 if none
FirstSlot(fu, val) ==
    IF \E j \in 1 .. Len(fu) : fu[j] = val
    THEN CHOOSE j \in 1 .. Len(fu) :
            fu[j] = val /\ \A i \in 1 .. (j - 1) : fu[i] # val
    ELSE 0

\* variant of FreeUnit: every unit of the class is made available
FreeUnitWholeClass(pools, fu_type) ==
    [pools EXCEPT ![fu_type] = [j \in 1 .. Len(pools[fu_type]) |-> TRUE]]

\* variant of FreeUnit: the class-0 branch is taken for every class
FreeUnitClassZero(pools, fu_type) ==
    IF FirstSlot(pools[0], FALSE) # 0
    THEN [pools EXCEPT ![0][FirstSlot(pools[0], FALSE)] = TRUE]
    ELSE pools

\* State Update: free the first non-available unit of the class
FreeUnit(pools, fu_type) ==
    IF fu_type \in 0 .. 2 /\ FirstSlot(pools[fu_type], FALSE) # 0
    THEN [pools EXCEPT ![fu_type][FirstSlot(pools[fu_type], FALSE)] = TRUE]
    ELSE pools

\* Fire: is there an available unit of the class
UnitAvailable(pools, fu_type) ==
    fu_type \in 0 .. 2 /\ FirstSlot(pools[fu_type], TRUE) # 0

\* variant of ReserveUnit: the unit found is not marked unavailable
ReserveUnitForgotten(pools, fu_type) == pools

\* Fire: occupy the first available unit of the class
ReserveUnit(pools, fu_type) ==
    [pools EXCEPT ![fu_type][FirstSlot(pools[fu_type], TRUE)] = FALSE]

Occupied(fu) == Cardinality({j \in 1 .. Len(fu) : ~fu[j]})

-----------------------------------------------------------------------------
(* Order of the phases in the body of the cycle loop *)

\* variant of PhaseAfter: Dispatch runs before Schedule in the second half
PhaseAfterDispatchFirst(p) ==
    CASE p = "loop" -> "state_update"
      [] p = "state_update" -> "complete"
      [] p = "complete" -> "ready"
      [] p = "ready" -> "fire"
      [] p = "fire" -> "dispatch"
      [] p = "dispatch" -> "schedule"
      [] p = "schedule" -> "evict"
      [] p = "evict" -> "fetch"
      [] p = "fetch" -> "loop"

\* variant of PhaseAfter: Schedule runs before Fire, in the first half
PhaseAfterScheduleFirst(p) ==
    CASE p = "loop" -> "state_update"
      [] p = "state_update" -> "complete"
      [] p = "complete" -> "ready"
      [] p = "ready" -> "schedule"
      [] p = "schedule" -> "fire"
      [] p = "fire" -> "dispatch"
      [] p = "dispatch" -> "evict"
      [] p = "evict" -> "fetch"
      [] p = "fetch" -> "loop"

\* the phase that follows phase p
PhaseAfter(p) ==
    CASE p = "loop" -> "state_update"
      [] p = "state_update" -> "complete"
      [] p = "complete" -> "ready"
      [] p = "ready" -> "fire"
      [] p = "fire" -> "schedule"
      [] p = "schedule" -> "dispatch"
      [] p = "dispatch" -> "evict"
      [] p = "evict" -> "fetch"
      [] p = "fetch" -> "loop"

-----------------------------------------------------------------------------
(* Loop head: cycle counter and dispatch-queue statistics *)

\* variant of AllDone: the RS is not part of the exit test
AllDoneIgnoringRS ==
    /\ done_fetching
    /\ fetch_buffer = << >>
    /\ dispatch_queue = << >>

\* the exit test computed at the bottom of the loop body
AllDone ==
    /\ done_fetching
    /\ fetch_buffer = << >>
    /\ dispatch_queue = << >>
    /\ schedule_queue = << >>

BeginCycle ==
    /\ pc = "loop"
    /\ ~AllDone
    /\ current_cycle < MaxCycle
    /\ current_cycle' = current_cycle + 1
    /\ total_dispatch_size' = total_dispatch_size + Len(dispatch_queue)
    /\ max_dispatch_size' = IF Len(dispatch_queue) > max_dispatch_size
                            THEN Len(dispatch_queue) ELSE max_dispatch_size
    /\ tags_to_remove' = << >>
    /\ pc' = PhaseAfter(pc)
    /\ UNCHANGED << config_vars, register_ready,
                    fu_k0_available, fu_k1_available, fu_k2_available,
                    fetch_buffer, dispatch_queue, schedule_queue,
                    next_tag, done_fetching, total_fired, total_retired,
                    read_pos, events, p_stats >>

-----------------------------------------------------------------------------
(* 1. State Update *)

AwaitsStateUpdate(inst) ==
    inst.execution_complete /\ inst.state_update_cycle = 0

\* variant of CompletedBefore: the comparator is reversed
CompletedBeforeReversed(a, b) ==
    IF a.complete_cycle # b.complete_cycle
    THEN a.complete_cycle > b.complete_cycle
    ELSE a.tag > b.tag

\* variant of CompletedBefore: the comparator looks at the tag only
CompletedBeforeByTag(a, b) == a.tag < b.tag

\* the comparator of std::sort over completed_insts
CompletedBefore(a, b) ==
    IF a.complete_cycle # b.complete_cycle
    THEN a.complete_cycle < b.complete_cycle
    ELSE a.tag < b.tag

\* variant of BusGrants: the loop is not bounded by g_r
BusGrantsAll(n, r) == n

\* the loop bound `i < completed_insts.size() && i < g_r`
BusGrants(n, r) == Min(n, r)

\* the entries that get a result bus this cycle, in update order
SelectForUpdate(rs, r) ==
    LET sorted == SortSeq(SelectSeq(rs, AwaitsStateUpdate), CompletedBefore)
    IN  SubSeq(sorted, 1, BusGrants(Len(sorted), r))

\* variant of ReleaseRegister: State Update leaves the scoreboard as it is
ReleaseRegisterNever(rr, inst) == rr

\* variant of ReleaseRegister: the comparison with the tag is inverted
ReleaseRegisterInverted(rr, inst) ==
    IF inst.dest_reg # -1 /\ rr[inst.dest_reg] # inst.tag
    THEN [rr EXCEPT ![inst.dest_reg] = -1]
    ELSE rr

\* conditional release of the scoreboard entry
ReleaseRegister(rr, inst) ==
    IF inst.dest_reg # -1 /\ rr[inst.dest_reg] = inst.tag
    THEN [rr EXCEPT ![inst.dest_reg] = -1]
    ELSE rr

StampStateUpdate(rs, tag, cycle) ==
    [j \in 1 .. Len(rs) |->
        IF rs[j].tag = tag THEN [rs[j] EXCEPT !.state_update_cycle = cycle]
        ELSE rs[j]]

RECURSIVE StateUpdateLoop(_, _, _, _)
StateUpdateLoop(sel, i, cycle, st) ==
    IF i > Len(sel) THEN st
    ELSE LET inst == sel[i] IN
         StateUpdateLoop(sel, i + 1, cycle,
            [pools   |-> FreeUnit(st.pools, inst.fu_type),
             rr      |-> ReleaseRegister(st.rr, inst),
             rs      |-> StampStateUpdate(st.rs, inst.tag, cycle),
             removed |-> Append(st.removed, inst.tag),
             retired |-> st.retired + 1,
             out     |-> Append(st.out, << cycle, "STATE UPDATE", inst.tag >>)])

StateUpdate ==
    /\ pc = "state_update"
    /\ LET st == StateUpdateLoop(SelectForUpdate(schedule_queue, g_r), 1,
                    current_cycle,
                    [pools |-> FuPools, rr |-> register_ready,
                     rs |-> schedule_queue, removed |-> << >>,
                     retired |-> total_retired, out |-> events])
       IN  /\ fu_k0_available' = st.pools[0]
           /\ fu_k1_available' = st.pools[1]
           /\ fu_k2_available' = st.pools[2]
           /\ register_ready' = st.rr
           /\ schedule_queue' = st.rs
           /\ tags_to_remove' = st.removed
           /\ total_retired' = st.retired
           /\ events' = st.out
    /\ pc' = PhaseAfter(pc)
    /\ UNCHANGED << config_vars, fetch_buffer, dispatch_queue,
                    next_tag, current_cycle, done_fetching, total_fired,
                    total_dispatch_size, max_dispatch_size, read_pos, p_stats >>

-----------------------------------------------------------------------------
(* 2. Complete Execution *)

Completes(inst, cycle) ==
    inst.fired /\ ~inst.execution_complete /\ inst.execute_cycle <= cycle

\* variant of MarkComplete: completion is stamped with the firing cycle
MarkCompleteAtFire(inst, cycle) ==
    [inst EXCEPT !.complete_cycle = inst.execute_cycle,
                 !.execution_complete = TRUE]

MarkComplete(inst, cycle) ==
    [inst EXCEPT !.complete_cycle = cycle, !.execution_complete = TRUE]

RECURSIVE ExecutedEvents(_, _, _)
ExecutedEvents(rs, i, cycle) ==
    IF i > Len(rs) THEN << >>
    ELSE (IF Completes(rs[i], cycle)
          THEN << << cycle, "EXECUTED", rs[i].tag >> >> ELSE << >>)
         \o ExecutedEvents(rs, i + 1, cycle)

CompleteExecution ==
    /\ pc = "complete"
    /\ schedule_queue' =
          [j \in 1 .. Len(schedule_queue) |->
              IF Completes(schedule_queue[j], current_cycle)
              THEN MarkComplete(schedule_queue[j], current_cycle)
              ELSE schedule_queue[j]]
    /\ events' = events \o ExecutedEvents(schedule_queue, 1, current_cycle)
    /\ pc' = PhaseAfter(pc)
    /\ UNCHANGED << config_vars, register_ready,
                    fu_k0_available, fu_k1_available, fu_k2_available,
                    fetch_buffer, dispatch_queue, next_tag, current_cycle,
                    done_fetching, total_fired, total_retired,
                    total_dispatch_size, max_dispatch_size, tags_to_remove,
                    read_pos, p_stats >>

-----------------------------------------------------------------------------
(* 3. Ready-bit propagation *)

\* variant of PropagatedReady: the bit is recomputed from the scoreboard in
\* every cycle
PropagatedReadyRecomputed(inst, i, rr) ==
    IF inst.src_reg[i] = -1 THEN TRUE
    ELSE rr[inst.src_reg[i]] = -1

\* variant of PropagatedReady: the scoreboard is not consulted
PropagatedReadyStale(inst, i, rr) ==
    IF inst.src_ready[i] THEN TRUE
    ELSE inst.src_reg[i] = -1

\* new value of src_ready[i] of an unfired RS entry
PropagatedReady(inst, i, rr) ==
    IF inst.src_ready[i] THEN TRUE
    ELSE IF inst.src_reg[i] = -1 THEN TRUE
    ELSE rr[inst.src_reg[i]] = -1

UpdateReadyBits ==
    /\ pc = "ready"
    /\ schedule_queue' =
          [j \in 1 .. Len(schedule_queue) |->
              LET inst == schedule_queue[j] IN
              IF ~inst.fired
              THEN [inst EXCEPT !.src_ready =
                       << PropagatedReady(inst, 1, register_ready),
                          PropagatedReady(inst, 2, register_ready) >>]
              ELSE inst]
    /\ pc' = PhaseAfter(pc)
    /\ UNCHANGED << config_vars, register_ready,
                    fu_k0_available, fu_k1_available, fu_k2_available,
                    fetch_buffer, dispatch_queue, next_tag, current_cycle,
                    done_fetching, total_fired, total_retired,
                    total_dispatch_size, max_dispatch_size, tags_to_remove,
                    read_pos, events, p_stats >>

-----------------------------------------------------------------------------
(* 4. Fire *)

ReadyToFire(inst) ==
    ~inst.fired /\ inst.src_ready[1] /\ inst.src_ready[2]

\* variant of TagBefore: the ready entries are sorted youngest first
TagBeforeYoungestFirst(a, b) == a.tag > b.tag

TagBefore(a, b) == a.tag < b.tag

MarkFired(rs, tag, cycle) ==
    [j \in 1 .. Len(rs) |->
        IF rs[j].tag = tag
        THEN [rs[j] EXCEPT !.fired = TRUE, !.execute_cycle = cycle]
        ELSE rs[j]]

RECURSIVE FireLoop(_, _, _, _)
FireLoop(ready, i, cycle, st) ==
    IF i > Len(ready) THEN st
    ELSE LET inst == ready[i] IN
         IF UnitAvailable(st.pools, inst.fu_type)
         THEN FireLoop(ready, i + 1, cycle,
                 [pools |-> ReserveUnit(st.pools, inst.fu_type),
                  rs    |-> MarkFired(st.rs, inst.tag, cycle),
                  fired |-> st.fired + 1])
         ELSE FireLoop(ready, i + 1, cycle, st)

Fire ==
    /\ pc = "fire"
    /\ LET ready == SortSeq(SelectSeq(schedule_queue, ReadyToFire), TagBefore)
           st == FireLoop(ready, 1, current_cycle,
                    [pools |-> FuPools, rs |-> schedule_queue,
                     fired |-> total_fired])
       IN  /\ fu_k0_available' = st.pools[0]
           /\ fu_k1_available' = st.pools[1]
           /\ fu_k2_available' = st.pools[2]
           /\ schedule_queue' = st.rs
           /\ total_fired' = st.fired
    /\ pc' = PhaseAfter(pc)
    /\ UNCHANGED << config_vars, register_ready, fetch_buffer, dispatch_queue,
                    next_tag, current_cycle, done_fetching, total_retired,
                    total_dispatch_size, max_dispatch_size, tags_to_remove,
                    read_pos, events, p_stats >>

-----------------------------------------------------------------------------
(* 5. Schedule *)

\* variant of RsHasRoom: the guard is `<=`
RsHasRoomInclusive(n, size) == n <= size

\* the loop guard `schedule_queue.size() < g_rs_size`
RsHasRoom(n, size) == n < size

\* variant of ScheduledReady: no test for a source equal to the destination
ScheduledReadyNoSelfTest(inst, i, rr) ==
    IF inst.src_reg[i] = -1 THEN TRUE
    ELSE rr[inst.src_reg[i]] = -1

\* ready bit of source i when the instruction enters the RS
ScheduledReady(inst, i, rr) ==
    IF inst.src_reg[i] = -1 THEN TRUE
    ELSE IF inst.src_reg[i] = inst.dest_reg THEN TRUE
    ELSE rr[inst.src_reg[i]] = -1

ScheduleInst(inst, cycle, rr) ==
    [inst EXCEPT !.schedule_cycle = cycle,
                 !.src_ready = << ScheduledReady(inst, 1, rr),
                                  ScheduledReady(inst, 2, rr) >>]

RECURSIVE ScheduleLoop(_, _, _)
ScheduleLoop(cycle, rr, st) ==
    IF st.dq # << >> /\ RsHasRoom(Len(st.rs), g_rs_size)
    THEN LET inst == ScheduleInst(Head(st.dq), cycle, rr) IN
         ScheduleLoop(cycle, rr,
            [dq  |-> Tail(st.dq),
             rs  |-> Append(st.rs, inst),
             out |-> Append(st.out, << cycle, "SCHEDULED", inst.tag >>)])
    ELSE st

Schedule ==
    /\ pc = "schedule"
    /\ LET st == ScheduleLoop(current_cycle, register_ready,
                    [dq |-> dispatch_queue, rs |-> schedule_queue,
                     out |-> events])
       IN  /\ dispatch_queue' = st.dq
           /\ schedule_queue' = st.rs
           /\ events' = st.out
    /\ pc' = PhaseAfter(pc)
    /\ UNCHANGED << config_vars, register_ready,
                    fu_k0_available, fu_k1_available, fu_k2_available,
                    fetch_buffer, next_tag, current_cycle, done_fetching,
                    total_fired, total_retired, total_dispatch_size,
                    max_dispatch_size, tags_to_remove, read_pos, p_stats >>

-----------------------------------------------------------------------------
(* 6. Dispatch *)

\* variant of ClaimRegister: Dispatch leaves the scoreboard as it is
ClaimRegisterForgotten(rr, inst) == rr

\* unconditional claim of the destination register
ClaimRegister(rr, inst) ==
    IF inst.dest_reg # -1 THEN [rr EXCEPT ![inst.dest_reg] = inst.tag] ELSE rr

\* variant of DispatchLoop: the instruction is pushed at the front of the
\* dispatch queue
RECURSIVE DispatchLoopPushFront(_, _, _, _)
DispatchLoopPushFront(fb, i, cycle, st) ==
    IF i > Len(fb) THEN st
    ELSE LET inst == [fb[i] EXCEPT !.dispatch_cycle = cycle] IN
         DispatchLoopPushFront(fb, i + 1, cycle,
            [rr  |-> ClaimRegister(st.rr, inst),
             dq  |-> << inst >> \o st.dq,
             out |-> Append(st.out, << cycle, "DISPATCHED", inst.tag >>)])

RECURSIVE DispatchLoop(_, _, _, _)
DispatchLoop(fb, i, cycle, st) ==
    IF i > Len(fb) THEN st
    ELSE LET inst == [fb[i] EXCEPT !.dispatch_cycle = cycle] IN
         DispatchLoop(fb, i + 1, cycle,
            [rr  |-> ClaimRegister(st.rr, inst),
             dq  |-> Append(st.dq, inst),
             out |-> Append(st.out, << cycle, "DISPATCHED", inst.tag >>)])

Dispatch ==
    /\ pc = "dispatch"
    /\ LET st == DispatchLoop(fetch_buffer, 1, current_cycle,
                    [rr |-> register_ready, dq |-> dispatch_queue,
                     out |-> events])
       IN  /\ register_ready' = st.rr
           /\ dispatch_queue' = st.dq
           /\ events' = st.out
    /\ fetch_buffer' = << >>
    /\ pc' = PhaseAfter(pc)
    /\ UNCHANGED << config_vars,
                    fu_k0_available, fu_k1_available, fu_k2_available,
                    schedule_queue, next_tag, current_cycle, done_fetching,
                    total_fired, total_retired, total_dispatch_size,
                    max_dispatch_size, tags_to_remove, read_pos, p_stats >>

-----------------------------------------------------------------------------
(* 7. Removal of state-updated instructions from the RS *)

\* variant of Evicted: every completed entry is removed
EvictedIfComplete(inst, tags) == inst.execution_complete

\* the remove_if predicate, applied for every tag of tags_to_remove
Evicted(inst, tags) == \E j \in 1 .. Len(tags) : tags[j] = inst.tag

RemoveFromRS ==
    /\ pc = "evict"
    /\ schedule_queue' =
          SelectSeq(schedule_queue, LAMBDA e : ~Evicted(e, tags_to_remove))
    /\ pc' = PhaseAfter(pc)
    /\ UNCHANGED << config_vars, register_ready,
                    fu_k0_available, fu_k1_available, fu_k2_available,
                    fetch_buffer, dispatch_queue, next_tag, current_cycle,
                    done_fetching, total_fired, total_retired,
                    total_dispatch_size, max_dispatch_size, tags_to_remove,
                    read_pos, events, p_stats >>

-----------------------------------------------------------------------------
(* 8. Fetch *)

\* opcode -1 uses a class-1 unit
FuType(op_code) == IF op_code = -1 THEN 1 ELSE op_code

\* The record as it enters the fetch buffer.  Fields the code leaves
\* unwritten until a later stage (dispatch_cycle, schedule_cycle,
\* execute_cycle, complete_cycle, src_ready) carry a placeholder that no
\* phase reads before it is written.
FetchedInst(t, tag, cycle) ==
    [op_code |-> t.op_code, src_reg |-> t.src_reg, dest_reg |-> t.dest_reg,
     tag |-> tag, fetch_cycle |-> cycle, dispatch_cycle |-> 0,
     schedule_cycle |-> 0, execute_cycle |-> 0, state_update_cycle |-> 0,
     src_ready |-> << FALSE, FALSE >>, fired |-> FALSE,
     fu_type |-> FuType(t.op_code), complete_cycle |-> 0,
     execution_complete |-> FALSE]

\* variant of FetchLoop: the end of the trace does not set done_fetching
RECURSIVE FetchLoopNoEof(_, _, _)
FetchLoopNoEof(i, cycle, st) ==
    IF i >= g_f THEN st
    ELSE IF st.pos < Len(trace)
         THEN FetchLoopNoEof(i + 1, cycle,
                 [fb   |-> Append(st.fb,
                              FetchedInst(trace[st.pos + 1], st.tag, cycle)),
                  tag  |-> st.tag + 1,
                  pos  |-> st.pos + 1,
                  done |-> st.done,
                  out  |-> Append(st.out, << cycle, "FETCHED", st.tag >>)])
         ELSE st

RECURSIVE FetchLoop(_, _, _)
FetchLoop(i, cycle, st) ==
    IF i >= g_f THEN st
    ELSE IF st.pos < Len(trace)
         THEN FetchLoop(i + 1, cycle,
                 [fb   |-> Append(st.fb,
                              FetchedInst(trace[st.pos + 1], st.tag, cycle)),
                  tag  |-> st.tag + 1,
                  pos  |-> st.pos + 1,
                  done |-> st.done,
                  out  |-> Append(st.out, << cycle, "FETCHED", st.tag >>)])
         ELSE [st EXCEPT !.done = TRUE]

Fetch ==
    /\ pc = "fetch"
    /\ LET st == IF done_fetching
                 THEN [fb |-> fetch_buffer, tag |-> next_tag, pos |-> read_pos,
                       done |-> done_fetching, out |-> events]
                 ELSE FetchLoop(0, current_cycle,
                         [fb |-> fetch_buffer, tag |-> next_tag,
                          pos |-> read_pos, done |-> done_fetching,
                          out |-> events])
       IN  /\ fetch_buffer' = st.fb
           /\ next_tag' = st.tag
           /\ read_pos' = st.pos
           /\ done_fetching' = st.done
           /\ events' = st.out
    /\ pc' = PhaseAfter(pc)
    /\ UNCHANGED << config_vars, register_ready,
                    fu_k0_available, fu_k1_available, fu_k2_available,
                    dispatch_queue, schedule_queue, current_cycle,
                    total_fired, total_retired, total_dispatch_size,
                    max_dispatch_size, tags_to_remove, p_stats >>

-----------------------------------------------------------------------------
(* Loop exit and complete_proc *)

ExitLoop ==
    /\ pc = "loop"
    /\ AllDone
    /\ p_stats' = [p_stats EXCEPT !.cycle_count = current_cycle]
    /\ pc' = "exited"
    /\ UNCHANGED << config_vars, register_ready,
                    fu_k0_available, fu_k1_available, fu_k2_available,
                    fetch_buffer, dispatch_queue, schedule_queue,
                    next_tag, current_cycle, done_fetching,
                    total_fired, total_retired, total_dispatch_size,
                    max_dispatch_size, tags_to_remove, read_pos, events >>

\* the float quotients are kept as << numerator, denominator >>
CompleteProc ==
    /\ pc = "exited"
    /\ p_stats' = [p_stats EXCEPT
                      !.retired_instruction = total_retired,
                      !.avg_inst_fired = << total_fired, p_stats.cycle_count >>,
                      !.avg_inst_retired = << total_retired, p_stats.cycle_count >>,
                      !.avg_disp_size = << total_dispatch_size, p_stats.cycle_count >>,
                      !.max_disp_size = max_dispatch_size]
    /\ pc' = "done"
    /\ UNCHANGED << config_vars, register_ready,
                    fu_k0_available, fu_k1_available, fu_k2_available,
                    fetch_buffer, dispatch_queue, schedule_queue,
                    next_tag, current_cycle, done_fetching,
                    total_fired, total_retired, total_dispatch_size,
                    max_dispatch_size, tags_to_remove, read_pos, events >>

Next ==
    \/ BeginCycle
    \/ StateUpdate
    \/ CompleteExecution
    \/ UpdateReadyBits
    \/ Fire
    \/ Schedule
    \/ Dispatch
    \/ RemoveFromRS
    \/ Fetch
    \/ ExitLoop
    \/ CompleteProc

-----------------------------------------------------------------------------
(* Inputs: traces and configurations *)

SeqsUpTo(S, n) == UNION {[1 .. m -> S] : m \in 0 .. n}

\* one opcode, two registers: a writer of one register that reads nothing
\* or reads the other register
HazardInsts ==
    UNION {{TraceInst(0, s, -1, d) : s \in {-1, 1 - d}} : d \in {0, 1}}

\* every class, the second source slot, instructions without destination
MixedInsts ==
    {TraceInst(op, -1, s, d) : op \in {-1, 0, 2}, s \in {-1, 0}, d \in {-1, 0}}

\* no registers, two classes
BurstInsts ==
    {TraceInst(op, -1, -1, -1) : op \in {-1, 0}}

Traces ==
    SeqsUpTo(HazardInsts, MaxInsts) \cup SeqsUpTo(MixedInsts, MaxMixed)
        \cup SeqsUpTo(BurstInsts, MaxBurst)

Config(r, k0, k1, k2, f) == [r |-> r, k0 |-> k0, k1 |-> k1, k2 |-> k2, f |-> f]

Configs ==
    {Config(1, 1, 1, 1, 1), Config(1, 1, 1, 1, 2),
     Config(DEFAULT_R, DEFAULT_K0, DEFAULT_K1, DEFAULT_K2, DEFAULT_F)}

\* single instructions and short programs over other registers and class 1
Scenario2Trace == << TraceInst(0, -1, -1, 5) >>

Scenario3Trace == << TraceInst(0, -1, -1, 3), TraceInst(1, 3, -1, 4) >>

Scenario4Trace == << TraceInst(0, 7, -1, 7) >>

\* register-free instructions of three classes completing together
ContentionTraces ==
    {<< TraceInst(0, -1, -1, -1), TraceInst(1, -1, -1, -1),
        TraceInst(2, -1, -1, -1) >>,
     << TraceInst(0, -1, -1, -1), TraceInst(0, -1, -1, -1),
        TraceInst(1, -1, -1, -1), TraceInst(2, -1, -1, -1) >>}

ScenarioTraces ==
    {Scenario2Trace, Scenario3Trace, Scenario4Trace} \cup ContentionTraces

Scenario2Config == Config(1, 1, 1, 1, 1)

Scenario3Config == Config(1, 1, 1, 1, 2)

ScenarioConfigs == Configs \cup {Config(1, 1, 1, 1, 4)}

Init ==
    \/ InitWith(Traces, Configs)
    \/ InitWith(ScenarioTraces, ScenarioConfigs)

Spec == Init /\ [][Next]_vars

-----------------------------------------------------------------------------
(* Vocabulary of the properties *)

\* the loop body has run to its end at least once
EndOfCycle == pc = "loop" /\ current_cycle > 0

SeqRange(q) == {q[j] : j \in 1 .. Len(q)}

\* instruction records held by the dispatch queue and the RS
Dispatched == SeqRange(dispatch_queue) \cup SeqRange(schedule_queue)

\* every instruction record in the pipeline
InFlight == SeqRange(fetch_buffer) \cup Dispatched

\* tag t is dispatched and has not received State Update
Pending(t) == \E e \in Dispatched : e.tag = t /\ e.state_update_cycle = 0

\* tags of the instructions older than `tag` that write register r
OlderWriters(tag, r) == {t \in 1 .. (tag - 1) : trace[t].dest_reg = r}

Max(S) == CHOOSE x \in S : \A y \in S : y <= x

\* RS entries fired in the Fire phase that has just run
FiredThisCycle ==
    {e \in SeqRange(schedule_queue) : e.fired /\ e.execute_cycle = current_cycle}

\* source registers of e that carry a hazard
HazardSources(e) ==
    {e.src_reg[i] : i \in 1 .. 2} \ {-1, e.dest_reg}

-----------------------------------------------------------------------------
\* C1 (P6, RAW hazard): right after the Fire phase, no instruction fired in
\* this cycle has a source register (other than "none" and its own
\* destination) whose most recent older writer is still in the dispatch
\* queue or the RS without State Update.
P6_NoRawHazardFire ==
    pc = "schedule" =>
        \A e \in FiredThisCycle : \A r \in HazardSources(e) :
            OlderWriters(e.tag, r) # {} => ~Pending(Max(OlderWriters(e.tag, r)))

-----------------------------------------------------------------------------
\* An unfired RS entry none of whose missing sources the scoreboard shows
\* ready: Ready-bit Propagation leaves it as it is.
Blocked(e) ==
    /\ ~e.fired
    /\ \E i \in 1 .. 2 : ~e.src_ready[i]
    /\ \A i \in 1 .. 2 :
          ~e.src_ready[i] =>
              e.src_reg[i] # -1 /\ register_ready[e.src_reg[i]] # -1

\* Instructions remain, the trace is exhausted, and no phase of a further
\* cycle can change the pipeline: nothing awaits a bus, nothing executes,
\* nothing can fire, nothing can be scheduled, dispatched or fetched.
Stalled ==
    /\ EndOfCycle
    /\ done_fetching
    /\ fetch_buffer = << >>
    /\ schedule_queue # << >>
    /\ \A e \in SeqRange(schedule_queue) : Blocked(e)
    /\ dispatch_queue = << >> \/ Len(schedule_queue) >= g_rs_size

\* C2 (drain): the cycle loop never reaches an end-of-cycle state in which
\* instructions remain in the dispatch queue or the RS and no later cycle
\* changes anything.
DrainNeverStalls == ~Stalled

-----------------------------------------------------------------------------
StateUpdated == {e \in SeqRange(schedule_queue) : e.state_update_cycle # 0}

\* C3 (P1, stage monotonicity): every state-updated instruction has
\* fetch <= dispatch <= schedule <= execute < complete <= state update and
\* complete = execute + 1.
P1_StageMonotonicity ==
    \A e \in StateUpdated :
        /\ e.fetch_cycle <= e.dispatch_cycle
        /\ e.dispatch_cycle <= e.schedule_cycle
        /\ e.schedule_cycle <= e.execute_cycle
        /\ e.execute_cycle < e.complete_cycle
        /\ e.complete_cycle <= e.state_update_cycle
        /\ e.complete_cycle = e.execute_cycle + 1

\* an instruction that waited for a result bus has been state-updated
P1_Witness ==
    \E e \in StateUpdated :
        e.state_update_cycle > e.complete_cycle + 1 /\ e.fetch_cycle > 1

-----------------------------------------------------------------------------
StateUpdateEvents(tag) ==
    {j \in 1 .. Len(events) :
        events[j][2] = "STATE UPDATE" /\ events[j][3] = tag}

\* C4 (P5, retirement conservation): once the loop has exited, total_retired
\* and total_fired equal the number of instructions the reader delivered,
\* every delivered instruction has exactly one STATE UPDATE event, and
\* complete_proc reports that count as retired_instruction.
P5_RetirementConservation ==
    pc \in {"exited", "done"} =>
        /\ total_retired = read_pos
        /\ total_fired = read_pos
        /\ \A t \in 1 .. read_pos : Cardinality(StateUpdateEvents(t)) = 1
        /\ pc = "done" => p_stats.retired_instruction = read_pos

\* a run over a trace of at least three instructions has reported
P5_Witness ==
    pc = "done" /\ read_pos >= 3 /\ p_stats.retired_instruction = read_pos

-----------------------------------------------------------------------------
\* tags that have gone through Dispatch
DispatchedTags == 1 .. (next_tag - 1 - Len(fetch_buffer))

\* dispatched writers of register r
Writers(r) == {t \in DispatchedTags : trace[t].dest_reg = r}

DestRegs == {trace[t].dest_reg : t \in 1 .. Len(trace)} \ {-1}

\* the scoreboard names the latest dispatched writer of a register for as
\* long as that writer has not received State Update, whatever older writers
\* of the register do
WawLatestWriterHolds ==
    \A r \in DestRegs :
        (Writers(r) # {} /\ Pending(Max(Writers(r)))) =>
            register_ready[r] = Max(Writers(r))

\* a consumer of r that follows two writers I1 < I2 of r does not fire
\* before I2 has received State Update
WawConsumerWaits ==
    pc = "schedule" =>
        \A e \in FiredThisCycle : \A r \in HazardSources(e) :
            Cardinality(OlderWriters(e.tag, r)) >= 2 =>
                ~Pending(Max(OlderWriters(e.tag, r)))

\* C5 (WAW ordering): Dispatch claims unconditionally and State Update
\* releases only its own claim, so the scoreboard names the later of two
\* writers I1 < I2 of a register after I1's State Update, and a later
\* consumer of that register fires only at or after I2's State Update.
WawOrdering == WawLatestWriterHolds /\ WawConsumerWaits

-----------------------------------------------------------------------------
\* C6 (I2, scoreboard holder exists): a tag held by the scoreboard for
\* register r belongs to an instruction in the fetch buffer, the dispatch
\* queue or the RS whose destination is r and which has not received State
\* Update.
I2_ScoreboardHolderExists ==
    \A r \in Regs :
        register_ready[r] # -1 =>
            \E e \in InFlight :
                /\ e.tag = register_ready[r]
                /\ e.dest_reg = r
                /\ e.state_update_cycle = 0

\* an older writer has received State Update while a later writer still
\* holds the register
I2_Witness ==
    \E e \in StateUpdated :
        e.dest_reg # -1 /\ register_ready[e.dest_reg] \notin {-1, e.tag}

-----------------------------------------------------------------------------
\* C7 (P2 / I1, RS capacity): in every state, between phases included, the
\* RS holds at most 2 * (k0 + k1 + k2) entries.
P2_RsCapacity ==
    Len(schedule_queue) <= 2 * (g_k0 + g_k1 + g_k2)

\* Schedule has stopped at a full RS with instructions still queued
P2_Witness ==
    /\ pc = "dispatch"
    /\ Len(schedule_queue) = 2 * (g_k0 + g_k1 + g_k2)
    /\ dispatch_queue # << >>

-----------------------------------------------------------------------------
StateUpdatesIn(c) ==
    {j \in 1 .. Len(events) :
        events[j][1] = c /\ events[j][2] = "STATE UPDATE"}

\* C8 (P3, result-bus throughput): no cycle has more than R STATE UPDATE
\* events.
P3_ResultBusThroughput ==
    \A c \in 1 .. current_cycle : Cardinality(StateUpdatesIn(c)) <= g_r

\* State Update has granted all R buses and left a completed entry waiting
P3_Witness ==
    /\ pc = "complete"
    /\ Cardinality(StateUpdatesIn(current_cycle)) = g_r
    /\ \E e \in SeqRange(schedule_queue) : AwaitsStateUpdate(e)

-----------------------------------------------------------------------------
UnitCount(c) == IF c = 0 THEN g_k0 ELSE IF c = 1 THEN g_k1 ELSE g_k2

\* tags of class c that have fired and have not received State Update
FiredUnretired(c) ==
    {e.tag : e \in {x \in InFlight :
                      x.fired /\ x.state_update_cycle = 0 /\ x.fu_type = c}}

\* C9 (P4, FU capacity): at the end of every cycle, for each class c, at
\* most k_c tags have fired without having received State Update.
P4_FuCapacity ==
    EndOfCycle =>
        \A c \in 0 .. 2 : Cardinality(FiredUnretired(c)) <= UnitCount(c)

\* every unit of a class is taken and a ready entry of that class waits
P4_Witness ==
    /\ EndOfCycle
    /\ \E c \in 0 .. 2 :
          /\ Cardinality(FiredUnretired(c)) = UnitCount(c)
          /\ \E e \in SeqRange(schedule_queue) :
                ReadyToFire(e) /\ e.fu_type = c

-----------------------------------------------------------------------------
\* RS entries of class c that are executing: fired, not yet complete
Executing(c) ==
    {e \in SeqRange(schedule_queue) :
        e.fired /\ ~e.execution_complete /\ e.fu_type = c}

\* RS entries of class c that have fired and have not received State Update
HoldingUnit(c) ==
    {e \in SeqRange(schedule_queue) :
        e.fired /\ e.state_update_cycle = 0 /\ e.fu_type = c}

\* C10 as stated (spec 4.3): at the end of every cycle the occupied units
\* of class c are as many as the RS entries of class c with fired and not
\* execution_complete.
FuPool_OccupiedIsExecuting ==
    EndOfCycle =>
        \A c \in 0 .. 2 :
            Occupied(FuPools[c]) = Cardinality(Executing(c))

\* C10 as amended: at the end of every cycle the occupied units of class c
\* are as many as the RS entries of class c that have fired and have not
\* received State Update (a unit is held until State Update, not until
\* execution completes).
FuPool_OccupiedIsUnretired ==
    EndOfCycle =>
        \A c \in 0 .. 2 :
            Occupied(FuPools[c]) = Cardinality(HoldingUnit(c))

\* a completed entry still holds its unit at the end of a cycle while
\* another entry of its class executes
FuPool_Witness ==
    /\ EndOfCycle
    /\ \E c \in 0 .. 2 :
          /\ HoldingUnit(c) \ Executing(c) # {}
          /\ Executing(c) # {}

-----------------------------------------------------------------------------
\* the run has this trace and this configuration
RunsWith(tr, c) ==
    /\ trace = tr
    /\ g_r = c.r /\ g_k0 = c.k0 /\ g_k1 = c.k1 /\ g_k2 = c.k2 /\ g_f = c.f

-----------------------------------------------------------------------------
\* the RS entry with tag t, while it is in the RS
RsEntry(t) == {e \in SeqRange(schedule_queue) : e.tag = t}

\* stage cycles of an RS entry, each one compared once the stage has stamped it
StagesAre(e, f, d, s, x, c, u) ==
    /\ e.fetch_cycle = f /\ e.dispatch_cycle = d /\ e.schedule_cycle = s
    /\ e.fired => e.execute_cycle = x
    /\ e.execution_complete => e.complete_cycle = c
    /\ e.state_update_cycle # 0 => e.state_update_cycle = u

-----------------------------------------------------------------------------
\* C13 (scenario 1, empty trace): when the reader delivers nothing, the loop
\* body runs exactly once, no event is printed, and the run reports
\* cycle_count = 1, retired_instruction = 0 and max_disp_size = 0, under
\* every configuration.
Scenario1_EmptyTrace ==
    trace = << >> =>
        /\ current_cycle <= 1
        /\ events = << >>
        /\ pc \in {"exited", "done"} =>
              current_cycle = 1 /\ p_stats.cycle_count = 1
        /\ pc = "done" =>
              /\ p_stats.retired_instruction = 0
              /\ p_stats.max_disp_size = 0

\* the run over the empty trace has reported, under the default configuration
Scenario1_Witness ==
    /\ trace = << >>
    /\ pc = "done"
    /\ p_stats.cycle_count = 1
    /\ g_r = DEFAULT_R /\ g_f = DEFAULT_F

-----------------------------------------------------------------------------
\* RS entries whose execution had completed when the cycle began, seen right
\* after the State Update phase (Complete Execution has not run yet, and an
\* entry updated in an earlier cycle has left the RS)
EligibleAtCycleStart == {e \in SeqRange(schedule_queue) : e.execution_complete}

\* RS entries the State Update phase of this cycle has updated
UpdatedThisCycle ==
    {e \in SeqRange(schedule_queue) : e.state_update_cycle = current_cycle}

\* the arbitration order: complete_cycle first, tag second
ArbitrationBefore(a, b) ==
    \/ a.complete_cycle < b.complete_cycle
    \/ a.complete_cycle = b.complete_cycle /\ a.tag < b.tag

\* C14 (result-bus arbitration): right after the State Update phase of a
\* cycle, with n entries eligible at the start of the cycle, exactly
\* min(R, n) of them have been updated, every updated entry precedes every
\* eligible entry left waiting in the order (complete_cycle, tag), and the
\* updates (tags_to_remove and the STATE UPDATE events of the cycle) were
\* made in that order.
ResultBusArbitration ==
    pc = "complete" =>
        LET n == Len(tags_to_remove)
            base == Len(events) - n
        IN  /\ Cardinality(UpdatedThisCycle) =
                  Min(g_r, Cardinality(EligibleAtCycleStart))
            /\ n = Cardinality(UpdatedThisCycle)
            /\ \A u \in UpdatedThisCycle :
                  \A w \in EligibleAtCycleStart \ UpdatedThisCycle :
                      ArbitrationBefore(u, w)
            /\ \A j \in 1 .. n :
                  /\ events[base + j] =
                        << current_cycle, "STATE UPDATE", tags_to_remove[j] >>
                  /\ \E u \in UpdatedThisCycle : u.tag = tags_to_remove[j]
            /\ \A i \in 1 .. n : \A j \in (i + 1) .. n :
                  \A a \in RsEntry(tags_to_remove[i]) :
                      \A b \in RsEntry(tags_to_remove[j]) :
                          ArbitrationBefore(a, b)

\* the one bus went to an entry that completed earlier than a waiting entry
\* of smaller tag
ResultBusArbitration_Witness ==
    /\ pc = "complete"
    /\ \E u \in UpdatedThisCycle :
          \E w \in EligibleAtCycleStart \ UpdatedThisCycle :
              u.tag > w.tag /\ u.complete_cycle < w.complete_cycle

-----------------------------------------------------------------------------
\* tags of the events of one stage, in the order they were printed
StageTags(stage) ==
    LET sel == SelectSeq(events, LAMBDA ev : ev[2] = stage)
    IN  [j \in 1 .. Len(sel) |-> sel[j][3]]

StrictlyIncreasing(q) == \A j \in 1 .. (Len(q) - 1) : q[j] < q[j + 1]

\* C15 (in-order front end): the j-th instruction fetched gets tag j and is
\* the j-th instruction of the trace, and the DISPATCHED events and the
\* SCHEDULED events each list tags in strictly increasing order.
InOrderFrontEnd ==
    /\ StageTags("FETCHED") = [j \in 1 .. (next_tag - 1) |-> j]
    /\ read_pos = next_tag - 1
    /\ \A e \in InFlight :
          /\ e.op_code = trace[e.tag].op_code
          /\ e.src_reg = trace[e.tag].src_reg
          /\ e.dest_reg = trace[e.tag].dest_reg
    /\ StrictlyIncreasing(StageTags("DISPATCHED"))
    /\ StrictlyIncreasing(StageTags("SCHEDULED"))

\* three instructions or more have been scheduled, two of them in one cycle
\* and not all in the same cycle
InOrderFrontEnd_Witness ==
    LET sel == SelectSeq(events, LAMBDA ev : ev[2] = "SCHEDULED")
    IN  /\ Len(sel) >= 3
        /\ \E i \in 1 .. (Len(sel) - 1) : sel[i][1] = sel[i + 1][1]
        /\ \E i \in 1 .. (Len(sel) - 1) : sel[i][1] < sel[i + 1][1]

-----------------------------------------------------------------------------
\* C16 as stated (I3, state-update order): the STATE UPDATE events list tags
\* in strictly increasing order across the whole run.
StateUpdateInTagOrder == StrictlyIncreasing(StageTags("STATE UPDATE"))

\* position of tag t among the updates of this cycle
UpdatePosition(t) ==
    CHOOSE j \in 1 .. Len(tags_to_remove) : tags_to_remove[j] = t

\* C16 as amended: State Update follows completion order, not tag order.
\* Right after the State Update phase, every RS entry of smaller tag than an
\* entry updated in this cycle, whose execution completed in the same cycle
\* as that entry's or earlier, has been updated in this cycle too and before
\* it; and the cycles of the STATE UPDATE events never decrease.
StateUpdateInCompletionOrder ==
    /\ pc = "complete" =>
          \A u \in UpdatedThisCycle : \A w \in SeqRange(schedule_queue) :
              (/\ w.tag < u.tag
               /\ w.execution_complete
               /\ w.complete_cycle <= u.complete_cycle)
              => /\ w \in UpdatedThisCycle
                 /\ UpdatePosition(w.tag) < UpdatePosition(u.tag)
    /\ LET sel == SelectSeq(events, LAMBDA ev : ev[2] = "STATE UPDATE")
       IN  \A j \in 1 .. (Len(sel) - 1) : sel[j][1] <= sel[j + 1][1]

\* an entry is updated after an entry of larger tag was updated in an
\* earlier cycle
StateUpdateOrder_Witness ==
    /\ pc = "complete"
    /\ \E u \in UpdatedThisCycle :
          \E j \in 1 .. Len(events) :
              /\ events[j][2] = "STATE UPDATE"
              /\ events[j][3] > u.tag
              /\ events[j][1] < current_cycle

-----------------------------------------------------------------------------
\* phases of a cycle that come after Fire
AfterFire == {"schedule", "dispatch", "evict", "fetch", "loop"}

\* C17 (self-dependence): right after Schedule, an entry scheduled in this
\* cycle has the ready bit set for every source register that equals its
\* destination register, whatever the scoreboard holds; and the single
\* instruction `op=0 dst=7 src=7,-1` fires in the cycle after the one in
\* which it is scheduled.
SelfDependenceReady ==
    /\ pc = "dispatch" =>
          \A e \in SeqRange(schedule_queue) :
              e.schedule_cycle = current_cycle =>
                  \A i \in 1 .. 2 :
                      e.src_reg[i] = e.dest_reg => e.src_ready[i]
    /\ trace = Scenario4Trace =>
          \A e \in SeqRange(schedule_queue) :
              /\ e.fired => e.execute_cycle = e.schedule_cycle + 1
              /\ (\/ current_cycle > e.schedule_cycle + 1
                  \/ current_cycle = e.schedule_cycle + 1 /\ pc \in AfterFire)
                 => e.fired

\* the scenario-4 instruction has fired while the scoreboard names it as the
\* pending writer of its own source
SelfDependence_Witness ==
    /\ trace = Scenario4Trace
    /\ pc = "schedule"
    /\ \E e \in FiredThisCycle :
          /\ e.src_reg[1] = e.dest_reg
          /\ register_ready[e.src_reg[1]] = e.tag
          /\ e.execute_cycle = e.schedule_cycle + 1

-----------------------------------------------------------------------------
\* C18 (scoreboard-ready means the producer has broadcast): when Ready-bit
\* Propagation is about to run, for every unfired RS entry and every source
\* register r of it whose ready bit is not set and which has an older
\* writer, the scoreboard shows r ready exactly when the producer, the
\* older writer of r with the greatest tag, has received State Update.
ScoreboardReadyIffProducerDone ==
    pc = "ready" =>
        \A e \in SeqRange(schedule_queue) : \A i \in 1 .. 2 :
            (/\ ~e.fired
             /\ ~e.src_ready[i]
             /\ OlderWriters(e.tag, e.src_reg[i]) # {})
            => (register_ready[e.src_reg[i]] = -1
                  <=> ~Pending(Max(OlderWriters(e.tag, e.src_reg[i]))))

-----------------------------------------------------------------------------
\* C19 (same-cycle wakeup): right after Fire, when Schedule has not yet
\* added this cycle's entries, an RS entry that was unfired when the cycle
\* began has every source bit set whose register the scoreboard showed ready
\* after this cycle's State Update; and if all its bits are set it has fired
\* in this cycle, unless no unit of its class was free at its turn: then
\* every unit of the class is occupied and no entry of the class with a
\* larger tag has fired in this cycle.
SameCycleWakeup ==
    pc = "schedule" =>
        \A e \in SeqRange(schedule_queue) :
            (~e.fired \/ e.execute_cycle = current_cycle) =>
                /\ \A i \in 1 .. 2 :
                      (e.src_reg[i] = -1 \/ register_ready[e.src_reg[i]] = -1)
                          => e.src_ready[i]
                /\ (~e.fired /\ e.src_ready[1] /\ e.src_ready[2]) =>
                      /\ Occupied(FuPools[e.fu_type]) = UnitCount(e.fu_type)
                      /\ \A f \in FiredThisCycle :
                            f.fu_type = e.fu_type => f.tag < e.tag

\* an entry has fired in the cycle whose State Update released the register
\* it was waiting for
SameCycleWakeup_Witness ==
    /\ pc = "schedule"
    /\ \E e \in FiredThisCycle : \E p \in UpdatedThisCycle :
          /\ p.tag < e.tag
          /\ p.dest_reg \in HazardSources(e)
          /\ e.schedule_cycle < p.complete_cycle

-----------------------------------------------------------------------------
-----------------------------------------------------------------------------
\* C21 (fire selection is oldest-first and work-conserving): at the end of
\* the Fire phase of any cycle, if an RS entry with fired = false and both
\* source-ready bits true remains, every unit of its class is occupied and
\* no entry of its class with a larger tag has fired in this cycle.
FireOldestFirst ==
    pc = PhaseAfter("fire") =>
        \A e \in SeqRange(schedule_queue) :
            (~e.fired /\ e.src_ready[1] /\ e.src_ready[2]) =>
                /\ \A j \in 1 .. Len(FuPools[e.fu_type]) :
                      ~FuPools[e.fu_type][j]
                /\ ~\E f \in SeqRange(schedule_queue) :
                      /\ f.fired /\ f.execute_cycle = current_cycle
                      /\ f.fu_type = e.fu_type
                      /\ f.tag > e.tag

\* two ready entries of one class competed for its last unit: the older one
\* has fired in this cycle and the younger one is left ready and unfired
FireOldestFirst_Witness ==
    /\ pc = "schedule"
    /\ \E e \in SeqRange(schedule_queue) : \E f \in FiredThisCycle :
          /\ ~e.fired /\ e.src_ready[1] /\ e.src_ready[2]
          /\ f.fu_type = e.fu_type
          /\ f.tag < e.tag
          /\ e.schedule_cycle < current_cycle

-----------------------------------------------------------------------------
\* the source-ready bits of every entry that stays in the RS over the step
\* stay set
ReadyBitsKept ==
    \A e \in SeqRange(schedule_queue) : \A n \in SeqRange(schedule_queue') :
        n.tag = e.tag =>
            \A i \in 1 .. 2 : e.src_ready[i] => n.src_ready[i]

\* C22 (sticky ready bits): no step of any phase takes a source-ready bit of
\* an RS entry from true to false while the entry is in the RS, also when
\* Dispatch claims the register of that source for a later writer.
StickyReadyBits == [][ReadyBitsKept]_vars

\* an unfired RS entry holds a set bit for a source register, other than its
\* destination, that the scoreboard now shows claimed by a later writer
StickyReadyBits_Witness ==
    \E e \in SeqRange(schedule_queue) : \E i \in 1 .. 2 :
        /\ ~e.fired
        /\ e.src_ready[i]
        /\ e.src_reg[i] \notin {-1, e.dest_reg}
        /\ register_ready[e.src_reg[i]] > e.tag

-----------------------------------------------------------------------------
\* C24 (minimum stage latencies): every instruction is dispatched in the
\* cycle after its fetch, scheduled no earlier than the cycle after its
\* dispatch and state-updated no earlier than the cycle after its
\* completion; so State Update comes at least five cycles after fetch, and a
\* run over a non-empty trace ends with cycle_count >= 6.
MinimumStageLatencies ==
    /\ \A e \in SeqRange(fetch_buffer) : e.fetch_cycle >= current_cycle - 1
    /\ \A e \in Dispatched : e.dispatch_cycle = e.fetch_cycle + 1
    /\ \A e \in SeqRange(schedule_queue) :
          /\ e.schedule_cycle >= e.dispatch_cycle + 1
          /\ e.state_update_cycle # 0 =>
                /\ e.state_update_cycle >= e.complete_cycle + 1
                /\ e.state_update_cycle >= e.fetch_cycle + 5
    /\ (pc \in {"exited", "done"} /\ trace # << >>) =>
          p_stats.cycle_count >= 6

\* a run over two instructions or more has ended after six cycles, each
\* instruction state-updated five cycles after its fetch
MinimumStageLatencies_Witness ==
    /\ pc = "done"
    /\ Len(trace) >= 2
    /\ p_stats.cycle_count = 6
    /\ p_stats.retired_instruction = Len(trace)

-----------------------------------------------------------------------------
\* C25 (FU bookkeeping matches occupancy): in every state, after each phase
\* of the loop body, for each class c the availability vector of class c has
\* as many false entries as there are RS entries of class c with
\* fired = true and no state_update_cycle.
FuBookkeepingEveryPhase ==
    \A c \in 0 .. 2 :
        Cardinality({j \in 1 .. Len(FuPools[c]) : ~FuPools[c][j]})
            = Cardinality({e.tag : e \in {x \in SeqRange(schedule_queue) :
                                             /\ x.fired
                                             /\ x.state_update_cycle = 0
                                             /\ x.fu_type = c}})

\* between Fire and Schedule, an entry has just reserved a unit of a class
\* in which an entry fired in an earlier cycle still holds another unit
FuBookkeeping_Witness ==
    /\ pc = "schedule"
    /\ \E f \in FiredThisCycle : \E h \in HoldingUnit(f.fu_type) :
          h.execute_cycle < current_cycle

-----------------------------------------------------------------------------
\* C26 (quiescence at exit): once run_proc has left its loop, every
\* scoreboard entry is 'ready' (-1) and every function unit of every class
\* is available.
QuiescentAtExit ==
    pc \in {"exited", "done"} =>
        /\ \A r \in Regs : register_ready[r] = -1
        /\ \A c \in 0 .. 2 : \A j \in 1 .. Len(FuPools[c]) : FuPools[c][j]

\* the loop has been left after a run in which one register had two
\* writers and the three classes were not all idle
QuiescentAtExit_Witness ==
    /\ pc = "exited"
    /\ total_fired >= 2
    /\ \E r \in DestRegs : Cardinality(Writers(r)) >= 2

-----------------------------------------------------------------------------
(* The producer-tag variant of run_proc.  It is a deterministic function of  *)
(* the trace and the configuration, and is computed here as one: a record    *)
(* of its globals is taken through the steps of the loop body, cycle by      *)
(* cycle.  Steps whose code is the same as in the live-scoreboard variant    *)
(* (State Update, the Fire loop, removal from the RS) use the operators      *)
(* above.                                                                    *)

\* the record as Fetch leaves it; src_producer is written by Dispatch
ProducerFetchedInst(t, tag, cycle) ==
    [op_code |-> t.op_code, src_reg |-> t.src_reg, dest_reg |-> t.dest_reg,
     tag |-> tag, fetch_cycle |-> cycle, dispatch_cycle |-> 0,
     schedule_cycle |-> 0, execute_cycle |-> 0, state_update_cycle |-> 0,
     src_ready |-> << FALSE, FALSE >>, src_producer |-> << -1, -1 >>,
     fired |-> FALSE, fu_type |-> FuType(t.op_code), complete_cycle |-> 0,
     execution_complete |-> FALSE]

\* the globals after setup_proc
ProducerSetup ==
    [rr |-> [r \in Regs |-> -1],
     pools |-> [c \in 0 .. 2 |->
                  AllAvailable(IF c = 0 THEN g_k0 ELSE IF c = 1 THEN g_k1 ELSE g_k2)],
     fb |-> << >>, dq |-> << >>, rs |-> << >>,
     tag |-> 1, pos |-> 0, done |-> FALSE, cycle |-> 0,
     fired |-> 0, retired |-> 0, max_disp |-> 0,
     removed |-> << >>, out |-> << >>]

\* loop head: cycle counter and dispatch-queue statistics
ProducerBeginCycle(s) ==
    [s EXCEPT !.cycle = s.cycle + 1,
              !.max_disp = IF Len(s.dq) > s.max_disp THEN Len(s.dq)
                           ELSE s.max_disp,
              !.removed = << >>]

\* 1. State Update
ProducerStateUpdate(s) ==
    LET st == StateUpdateLoop(SelectForUpdate(s.rs, g_r), 1, s.cycle,
                 [pools |-> s.pools, rr |-> s.rr, rs |-> s.rs,
                  removed |-> << >>, retired |-> s.retired, out |-> s.out])
    IN  [s EXCEPT !.pools = st.pools, !.rr = st.rr, !.rs = st.rs,
                  !.removed = st.removed, !.retired = st.retired,
                  !.out = st.out]

\* 2. Complete Execution: the test is `execute_cycle < current_cycle`
ProducerCompletes(inst, cycle) ==
    inst.fired /\ ~inst.execution_complete /\ inst.execute_cycle < cycle

RECURSIVE ProducerExecutedEvents(_, _, _)
ProducerExecutedEvents(rs, i, cycle) ==
    IF i > Len(rs) THEN << >>
    ELSE (IF ProducerCompletes(rs[i], cycle)
          THEN << << cycle, "EXECUTED", rs[i].tag >> >> ELSE << >>)
         \o ProducerExecutedEvents(rs, i + 1, cycle)

ProducerCompleteExecution(s) ==
    [s EXCEPT !.rs = [j \in 1 .. Len(s.rs) |->
                         IF ProducerCompletes(s.rs[j], s.cycle)
                         THEN [s.rs[j] EXCEPT !.complete_cycle = s.cycle,
                                              !.execution_complete = TRUE]
                         ELSE s.rs[j]],
              !.out = s.out \o ProducerExecutedEvents(s.rs, 1, s.cycle)]

\* the lookup of a producer tag: in the RS it counts as completed once it
\* has a state_update_cycle; outside the RS it counts as completed unless it
\* is in the dispatch queue
ProducerCompleted(p, rs, dq) ==
    IF \E j \in 1 .. Len(rs) : rs[j].tag = p
    THEN \E j \in 1 .. Len(rs) : rs[j].tag = p /\ rs[j].state_update_cycle > 0
    ELSE ~\E j \in 1 .. Len(dq) : dq[j].tag = p

\* 3. Ready-bit update of the unfired RS entries
ProducerReadyBit(inst, i, rs, dq) ==
    IF ~inst.src_ready[i] /\ inst.src_producer[i] # -1
    THEN ProducerCompleted(inst.src_producer[i], rs, dq)
    ELSE inst.src_ready[i]

ProducerUpdateReadyBits(s) ==
    [s EXCEPT !.rs = [j \in 1 .. Len(s.rs) |->
                         IF ~s.rs[j].fired
                         THEN [s.rs[j] EXCEPT !.src_ready =
                                  << ProducerReadyBit(s.rs[j], 1, s.rs, s.dq),
                                     ProducerReadyBit(s.rs[j], 2, s.rs, s.dq) >>]
                         ELSE s.rs[j]]]

\* 4. Schedule, in the first half: the dispatch queue is scanned from its
\* head while the RS has room; an instruction whose producers have all
\* completed moves to the RS with both bits set, any other is skipped
ProducerAllReady(inst, rs, dq) ==
    \A i \in 1 .. 2 :
        inst.src_producer[i] = -1
            \/ ProducerCompleted(inst.src_producer[i], rs, dq)

\* the sequence q without its element at position i
EraseAt(q, i) == SubSeq(q, 1, i - 1) \o SubSeq(q, i + 1, Len(q))

RECURSIVE ProducerScheduleLoop(_, _, _)
ProducerScheduleLoop(it, cycle, st) ==
    IF it <= Len(st.dq) /\ Len(st.rs) < g_rs_size
    THEN LET inst == [st.dq[it] EXCEPT !.schedule_cycle = cycle] IN
         IF ProducerAllReady(inst, st.rs, st.dq)
         THEN ProducerScheduleLoop(it, cycle,
                 [dq  |-> EraseAt(st.dq, it),
                  rs  |-> Append(st.rs,
                             [inst EXCEPT !.src_ready = << TRUE, TRUE >>]),
                  out |-> Append(st.out, << cycle, "SCHEDULED", inst.tag >>)])
         ELSE ProducerScheduleLoop(it + 1, cycle, st)
    ELSE st

ProducerSchedule(s) ==
    LET st == ProducerScheduleLoop(1, s.cycle,
                 [dq |-> s.dq, rs |-> s.rs, out |-> s.out])
    IN  [s EXCEPT !.dq = st.dq, !.rs = st.rs, !.out = st.out]

\* 5. Fire, after Schedule
ProducerFire(s) ==
    LET ready == SortSeq(SelectSeq(s.rs, ReadyToFire), TagBefore)
        st == FireLoop(ready, 1, s.cycle,
                 [pools |-> s.pools, rs |-> s.rs, fired |-> s.fired])
    IN  [s EXCEPT !.pools = st.pools, !.rs = st.rs, !.fired = st.fired]

\* 6. Dispatch: the producer of each source is read off the scoreboard
\* before the destination is claimed
ProducerOf(inst, i, rr) ==
    IF inst.src_reg[i] = -1 THEN -1
    ELSE IF inst.src_reg[i] = inst.dest_reg THEN -1
    ELSE rr[inst.src_reg[i]]

RECURSIVE ProducerDispatchLoop(_, _, _, _)
ProducerDispatchLoop(fb, i, cycle, st) ==
    IF i > Len(fb) THEN st
    ELSE LET inst == [fb[i] EXCEPT
                         !.dispatch_cycle = cycle,
                         !.src_producer = << ProducerOf(fb[i], 1, st.rr),
                                             ProducerOf(fb[i], 2, st.rr) >>]
         IN  ProducerDispatchLoop(fb, i + 1, cycle,
                [rr  |-> ClaimRegister(st.rr, inst),
                 dq  |-> Append(st.dq, inst),
                 out |-> Append(st.out, << cycle, "DISPATCHED", inst.tag >>)])

ProducerDispatch(s) ==
    LET st == ProducerDispatchLoop(s.fb, 1, s.cycle,
                 [rr |-> s.rr, dq |-> s.dq, out |-> s.out])
    IN  [s EXCEPT !.rr = st.rr, !.dq = st.dq, !.out = st.out,
                  !.fb = << >>]

\* 7. Removal of the state-updated instructions from the RS
ProducerRemoveFromRS(s) ==
    [s EXCEPT !.rs = SelectSeq(s.rs, LAMBDA e : ~Evicted(e, s.removed))]

\* 8. Fetch
RECURSIVE ProducerFetchLoop(_, _, _)
ProducerFetchLoop(i, cycle, st) ==
    IF i >= g_f THEN st
    ELSE IF st.pos < Len(trace)
         THEN ProducerFetchLoop(i + 1, cycle,
                 [st EXCEPT
                     !.fb = Append(st.fb,
                               ProducerFetchedInst(trace[st.pos + 1],
                                                   st.tag, cycle)),
                     !.tag = st.tag + 1,
                     !.pos = st.pos + 1,
                     !.out = Append(st.out, << cycle, "FETCHED", st.tag >>)])
         ELSE [st EXCEPT !.done = TRUE]

ProducerFetch(s) ==
    IF s.done THEN s ELSE ProducerFetchLoop(0, s.cycle, s)

\* one pass through the loop body, in the order of the code
ProducerCycle(s) ==
    ProducerFetch(ProducerRemoveFromRS(ProducerDispatch(ProducerFire(
        ProducerSchedule(ProducerUpdateReadyBits(ProducerCompleteExecution(
            ProducerStateUpdate(ProducerBeginCycle(s)))))))))

\* the exit test
ProducerAllDone(s) ==
    s.done /\ s.fb = << >> /\ s.dq = << >> /\ s.rs = << >>

\* run_proc: the loop is a do-while, cut after MaxCycle cycles
RECURSIVE ProducerLoop(_)
ProducerLoop(s) ==
    LET n == ProducerCycle(s) IN
    IF ProducerAllDone(n) \/ n.cycle >= MaxCycle THEN n ELSE ProducerLoop(n)

\* the producer-tag variant run on the trace and configuration of this run:
\* its event stream and the statistics it reports
ProducerRun ==
    LET s == ProducerLoop(ProducerSetup)
    IN  [events |-> s.out, cycle_count |-> s.cycle,
         retired_instruction |-> s.retired, max_disp_size |-> s.max_disp,
         exited |-> ProducerAllDone(s)]

-----------------------------------------------------------------------------
\* C23 (variant equivalence): when the live-scoreboard variant has finished
\* a run, the producer-tag variant run on the same trace and configuration
\* has finished too and has printed the same sequence of (cycle, stage, tag)
\* events and reported the same cycle_count and the same retired count.
VariantEquivalence ==
    pc = "done" =>
        /\ ProducerRun.exited
        /\ ProducerRun.events = events
        /\ ProducerRun.cycle_count = p_stats.cycle_count
        /\ ProducerRun.retired_instruction = p_stats.retired_instruction

====
